---- MODULE Spec2Model ----
(***************************************************************************)
(* Model of buildscripts/sync_repo_with_copybara.py: the one-shot Copybara *)
(* synchronisation script (run_command, get_installation_access_token,     *)
(* create_mongodb_bot_gitconfig, send_failure_message_to_slack, main).     *)
(*                                                                         *)
(* Text is modelled as a sequence of fragments (each fragment a TLA+       *)
(* string standing for a run of characters); concatenation is \o and the   *)
(* Python `in` test on strings is contiguous-subsequence search.           *)
(* Python values that may be None are tagged records: None, Str(text).     *)
(***************************************************************************)
EXTENDS Naturals, Integers, Sequences, FiniteSets, TLC

VARIABLES
    pc,                 \* position of main(): the statement about to run
    copybara_exists,    \* os.path.exists('copybara')
    expansion_file,     \* content of the file named by --expansion-file, as
                        \* read_config_file finds it (empty until it is read)
    expansions,         \* main's local `expansions`
    access_token,       \* main's local `access_token_copybara_syncer`
    gitconfig,          \* content of ~/mongodb-bot.gitconfig (None: no file)
    gitconfig_history,  \* contents of that file over time: the one found, then
                        \* the one left by each write
    log,                \* lines printed to standard output, oldest first
    executed,           \* command lines handed to subprocess.run, oldest first
    proc,               \* outcome of the child process of the run_command call
                        \* whose result or exception is still live
    result,             \* what that run_command call did
    auth_calls,         \* responses of integration.get_access_token, oldest first
    slack_calls,        \* arguments of each send_failure_message_to_slack call
    slack_requests,     \* messages handed to evg_api.send_slack_message
    slack_sent,         \* messages the messaging API accepted
    sdam,               \* an SDAMJsonTestCase and the machine it is built on
    exception,          \* exception that left main uncaught ("none" if none)
    exit_code           \* process exit status once pc = "exit" (-1 before)

vars == <<pc, copybara_exists, expansion_file, expansions, access_token,
          gitconfig, gitconfig_history, log, executed, proc, result, auth_calls,
          slack_calls, slack_requests, slack_sent, sdam, exception, exit_code>>

-----------------------------------------------------------------------------
(* Bounds *)

\* longest standard-error text, in fragments
MaxStderrLen == 3
\* longest prior content of the git identity file, in fragments
MaxGitconfigLen == 3
\* longest fixture path handed to SDAMJsonTestCase, in components
MaxPathLen == 3

-----------------------------------------------------------------------------
(* Python values *)

None == [type |-> "NoneType"]
Str(t) == [type |-> "str", text |-> t]
Authorization(tok) == [type |-> "InstallationAuthorization", token |-> tok]

\* str(v) and f-string interpolation of v
PyStr(v) == IF v.type = "NoneType" THEN <<"None">> ELSE v.text

\* truth value of v in `if v:`
Truthy(v) ==
    CASE v.type = "NoneType" -> FALSE
      [] v.type = "str" -> v.text # <<>>
      [] OTHER -> TRUE

\* `p in s` for strings
Contains(s, p) ==
    \E i \in 0..(Len(s) - Len(p)) : SubSeq(s, i + 1, i + Len(p)) = p

RECURSIVE SeqsUpTo(_, _)
SeqsUpTo(S, n) ==
    IF n = 0 THEN {<<>>}
    ELSE LET shorter == SeqsUpTo(S, n - 1)
         IN  shorter \cup {Append(s, x) : s \in shorter, x \in S}

-----------------------------------------------------------------------------
(* Inputs: child processes, expansions, the identity service *)

NoNewChanges == "No new changes to import"
IterativeNoChanges == "Iterative workflow produced no changes in the destination"
ForResolvedRef == " for resolved ref"
AuthFailed == "fatal: authentication failed"

StderrFragments == {NoNewChanges, IterativeNoChanges, ForResolvedRef, AuthFailed}
StderrTexts == SeqsUpTo(StderrFragments, MaxStderrLen)
StdoutTexts == {<<>>, <<NoNewChanges, ForResolvedRef>>}

\* what a child process can do: exit status and the two captured streams
ReturnCodes == {0, 1, 2}
Procs == [returncode : ReturnCodes, stdout : StdoutTexts, stderr : StderrTexts]

RequiredKeys == {"app_id_copybara_syncer", "private_key_copybara_syncer",
                 "installation_id_copybara_syncer"}
ExpansionKeys == RequiredKeys \cup {"version_id"}
ExpansionFiles == {[k \in K |-> <<"value of ", k>>] : K \in SUBSET ExpansionKeys}
NoExpansions == [k \in {} |-> <<>>]

InstallationToken == <<"ghs_installation_token">>
\* integration.get_access_token(installation_id): nothing, or an
\* authorization object whose token field the service filled in (or left empty)
AuthResponses == {None, Authorization(Str(InstallationToken)), Authorization(Str(<<>>))}

OtherGitconfig == <<"[user] name = Somebody Else">>
NoTestCase == [pc |-> "none"]
NoProc == [type |-> "NoneType"]
NoResult == [kind |-> "none", value |-> None, exc |-> None, printed |-> <<>>]

-----------------------------------------------------------------------------
(* run_command *)

CalledProcessError(command, p) ==
    [type |-> "CalledProcessError", cmd |-> command, returncode |-> p.returncode,
     output |-> Str(p.stdout), stderr |-> Str(p.stderr)]

\* str(err) of a CalledProcessError
ErrStr(err) ==
    <<"Command '">> \o err.cmd \o
    <<"' returned non-zero exit status ", ToString(err.returncode), ".">>

\* the line run_command prints before re-raising
Diagnostic(command, err) ==
    <<"Error while executing: '">> \o command \o <<"'. ">> \o ErrStr(err) \o
    <<" Standard Error: ">> \o PyStr(err.stderr)

\* run_command gone wrong: the exception carries standard output where the
\* standard error belongs
RunCommandWrongStream(command, p) ==
    IF p.returncode = 0
    THEN [kind |-> "return", value |-> Str(p.stdout), exc |-> None, printed |-> <<>>]
    ELSE LET err == [CalledProcessError(command, p) EXCEPT !.stderr = Str(p.stdout)]
         IN  [kind |-> "raise", value |-> None, exc |-> err,
              printed |-> <<Diagnostic(command, err)>>]

\* run_command gone wrong: the print before the re-raise is missing
RunCommandSilent(command, p) ==
    IF p.returncode = 0
    THEN [kind |-> "return", value |-> Str(p.stdout), exc |-> None, printed |-> <<>>]
    ELSE [kind |-> "raise", value |-> None, exc |-> CalledProcessError(command, p),
          printed |-> <<>>]

\* run_command(command) when the child process does p
RunCommand(command, p) ==
    IF p.returncode = 0
    THEN [kind |-> "return", value |-> Str(p.stdout), exc |-> None, printed |-> <<>>]
    ELSE LET err == CalledProcessError(command, p)
         IN  [kind |-> "raise", value |-> None, exc |-> err,
              printed |-> <<Diagnostic(command, err)>>]

-----------------------------------------------------------------------------
(* create_mongodb_bot_gitconfig, get_installation_access_token, *)
(* send_failure_message_to_slack                                 *)

BotGitconfig == <<"[user] name = MongoDB Bot email = mongo-bot@mongodb.com">>
GitconfigCreated == <<"mongodb-bot.gitconfig file created.">>

\* the preparer gone wrong: the file is opened in append mode
CreateMongodbBotGitconfigAppend(prior) ==
    [file |-> Str((IF prior = None THEN <<>> ELSE prior.text) \o BotGitconfig),
     printed |-> <<GitconfigCreated>>]

\* create_mongodb_bot_gitconfig when the file holds `prior` (None: no file):
\* the content the file holds afterwards and what is printed
CreateMongodbBotGitconfig(prior) ==
    [file |-> Str(BotGitconfig), printed |-> <<GitconfigCreated>>]

\* get_installation_access_token, given what get_access_token returned
GetInstallationAccessToken(auth) ==
    IF Truthy(auth)
    THEN [value |-> auth.token, printed |-> <<>>]
    ELSE [value |-> None, printed |-> << <<"Error obtaining installation token">> >>]

\* expansions.get(key, None)
DictGet(d, key) == IF key \in DOMAIN d THEN Str(d[key]) ELSE None

\* the lookup gone wrong: expansions["version_id"], which raises KeyError
\* when the key is absent
CurrentVersionIdSubscript(exps) ==
    [raised |-> "version_id" \notin DOMAIN exps, value |-> DictGet(exps, "version_id")]

\* current_version_id = expansions.get("version_id", None): never raises
CurrentVersionId(exps) ==
    [raised |-> FALSE, value |-> DictGet(exps, "version_id")]

SlackTarget == "#sdp-triager"
ErrorMsg(exps) ==
    <<"Evergreen task '* Copybara Sync Between Repos' failed ",
      "For more details: <https://spruce.mongodb.com/version/">>
    \o PyStr(DictGet(exps, "version_id")) \o <<"|here>.">>

-----------------------------------------------------------------------------
(* main: the values it builds *)

CloneCmd == <<"git clone https://github.com/10gen/copybara.git">>
BuildCmd == <<"cd copybara && docker build --rm -t copybara .">>

GitDestinationUrlWithToken(tok) ==
    <<"https://x-access-token:">> \o PyStr(tok) \o <<"@github.com/mongodb/mongo.git">>

DockerCmd(tok) ==
    <<"docker run -v ~/.ssh:/root/.ssh -v ~/mongodb-bot.gitconfig:/root/.gitconfig",
      " -v cwd/copybara.sky:/usr/src/app/copy.bara.sky",
      " -e COPYBARA_CONFIG='copy.bara.sky' -e COPYBARA_SUBCOMMAND='migrate'",
      " -e COPYBARA_OPTIONS='-v --last-rev=0fd0cc3 --git-destination-url=">>
    \o GitDestinationUrlWithToken(tok) \o <<"' copybara copybara">>

AcceptableErrorMessages ==
    { <<NoNewChanges, ForResolvedRef>>, <<IterativeNoChanges, ForResolvedRef>> }

\* classification gone wrong: the second pattern is missing from the list
IsAcceptableFirstOnly(error_message) ==
    Contains(error_message, <<NoNewChanges, ForResolvedRef>>)

\* classification gone wrong: the first pattern cut short
IsAcceptableTruncated(error_message) ==
    \/ Contains(error_message, <<NoNewChanges>>)
    \/ Contains(error_message, <<IterativeNoChanges, ForResolvedRef>>)

\* any(acceptable_message in error_message for ...)
IsAcceptable(error_message) ==
    \E acceptable_message \in AcceptableErrorMessages :
        Contains(error_message, acceptable_message)

\* the lookup gone wrong: installation_id read with .get(), so its absence
\* raises nothing
MissingRequiredKeyLenient(exps) ==
    \E k \in RequiredKeys \ {"installation_id_copybara_syncer"} : k \notin DOMAIN exps

\* the three subscripts of `expansions` evaluated before the token exchange
MissingRequiredKey(exps) == \E k \in RequiredKeys : k \notin DOMAIN exps

\* the handler gone wrong: the notification sits in a `finally`, so it is
\* sent whatever the migration did
AfterMigrationFinally(r) == "notify"

\* the handler gone wrong: the acceptable messages are looked for in the
\* captured standard output as well
AfterMigrationChecksOutput(r) ==
    IF r.kind = "return" THEN "return"
    ELSE IF IsAcceptable(PyStr(r.exc.output) \o PyStr(r.exc.stderr)) THEN "return"
    ELSE "notify"

\* where main goes once run_command(docker_cmd) has done r:
\* "return" (fall off the end or the early return) or "notify"
AfterMigration(r) ==
    IF r.kind = "return" THEN "return"
    ELSE IF IsAcceptable(PyStr(r.exc.stderr)) THEN "return"
    ELSE "notify"

-----------------------------------------------------------------------------
(* main: its steps *)

Init ==
    /\ pc = "check_dir"
    /\ copybara_exists \in BOOLEAN
    /\ expansion_file = NoExpansions
    /\ expansions = NoExpansions
    /\ access_token = None
    /\ gitconfig \in {None, Str(OtherGitconfig)}
    /\ gitconfig_history = <<gitconfig>>
    /\ log = <<>>
    /\ executed = <<>>
    /\ proc = NoProc
    /\ result = NoResult
    /\ auth_calls = <<>>
    /\ slack_calls = <<>>
    /\ slack_requests = <<>>
    /\ slack_sent = <<>>
    /\ sdam = NoTestCase
    /\ exception = "none"
    /\ exit_code = -1

\* main returns: the interpreter exits with status 0
Return ==
    /\ pc' = "exit"
    /\ exit_code' = 0
    /\ exception' = "none"

\* the exit gone wrong: the exception is swallowed and main waits for ever
\* instead of ending the process
RaiseHang(name) ==
    /\ pc' = "hung"
    /\ exit_code' = exit_code
    /\ exception' = name

\* an exception leaves main: the interpreter exits with status 1
Raise(name) ==
    /\ pc' = "exit"
    /\ exit_code' = 1
    /\ exception' = name

\* the call gone wrong: a failed command is run again
RunUncaughtRetry(command, p, next) ==
    LET r == RunCommand(command, p)
    IN  /\ executed' = Append(executed, command)
        /\ log' = log \o r.printed
        /\ proc' = NoProc
        /\ result' = NoResult
        /\ pc' = IF r.kind = "raise" THEN pc ELSE next
        /\ UNCHANGED <<exception, exit_code>>

\* the call gone wrong: the acceptable messages excuse any failed command
RunUncaughtTolerant(command, p, next) ==
    LET r == RunCommand(command, p)
    IN  /\ executed' = Append(executed, command)
        /\ log' = log \o r.printed
        /\ IF r.kind = "raise" /\ ~IsAcceptable(PyStr(r.exc.stderr))
           THEN /\ proc' = p
                /\ result' = r
                /\ Raise("CalledProcessError")
           ELSE /\ proc' = NoProc
                /\ result' = NoResult
                /\ pc' = next
                /\ UNCHANGED <<exception, exit_code>>

\* run_command(command) as an expression statement of main: nothing catches
\* its error, and its return value is dropped
RunUncaught(command, p, next) ==
    LET r == RunCommand(command, p)
    IN  /\ executed' = Append(executed, command)
        /\ log' = log \o r.printed
        /\ IF r.kind = "raise"
           THEN /\ proc' = p
                /\ result' = r
                /\ Raise("CalledProcessError")
           ELSE /\ proc' = NoProc
                /\ result' = NoResult
                /\ pc' = next
                /\ UNCHANGED <<exception, exit_code>>

\* lines 104-105: the directory is there
DirExists ==
    /\ pc = "check_dir"
    /\ copybara_exists
    /\ log' = Append(log, <<"Copybara directory already exists.">>)
    /\ pc' = "build"
    /\ UNCHANGED <<copybara_exists, expansion_file, expansions, access_token,
                   gitconfig, executed, proc, result, auth_calls, slack_calls,
                   slack_sent, exception, exit_code>>
    /\ UNCHANGED <<gitconfig_history, slack_requests, sdam>>

\* the existence check gone wrong: the clone is run whether or not the
\* directory is there
CloneUnconditional ==
    /\ pc = "check_dir"
    /\ \E p \in Procs :
        /\ RunUncaught(CloneCmd, p, "build")
        /\ copybara_exists' = (copybara_exists \/ p.returncode = 0)
    /\ UNCHANGED <<expansion_file, expansions, access_token, gitconfig,
                   auth_calls, slack_calls, slack_sent>>
    /\ UNCHANGED <<gitconfig_history, slack_requests, sdam>>

\* lines 106-107: git clone
Clone ==
    /\ pc = "check_dir"
    /\ ~copybara_exists
    /\ \E p \in Procs :
        /\ RunUncaught(CloneCmd, p, "build")
        /\ copybara_exists' = (p.returncode = 0)
    /\ UNCHANGED <<expansion_file, expansions, access_token, gitconfig,
                   auth_calls, slack_calls, slack_sent>>
    /\ UNCHANGED <<gitconfig_history, slack_requests, sdam>>

\* line 110: docker build
Build ==
    /\ pc = "build"
    /\ \E p \in Procs : RunUncaught(BuildCmd, p, "read_config")
    /\ UNCHANGED <<copybara_exists, expansion_file, expansions, access_token,
                   gitconfig, auth_calls, slack_calls, slack_sent>>
    /\ UNCHANGED <<gitconfig_history, slack_requests, sdam>>

\* line 113: read_config_file
ReadConfig ==
    /\ pc = "read_config"
    /\ \E file \in ExpansionFiles :
        /\ expansion_file' = file
        /\ expansions' = file
    /\ pc' = "get_token"
    /\ UNCHANGED <<copybara_exists, access_token, gitconfig,
                   log, executed, proc, result, auth_calls, slack_calls,
                   slack_sent, exception, exit_code>>
    /\ UNCHANGED <<gitconfig_history, slack_requests, sdam>>

\* lines 115-117 when a subscript raises KeyError
GetTokenKeyError ==
    /\ pc = "get_token"
    /\ MissingRequiredKey(expansions)
    /\ Raise("KeyError")
    /\ UNCHANGED <<copybara_exists, expansion_file, expansions, access_token,
                   gitconfig, log, executed, proc, result, auth_calls,
                   slack_calls, slack_sent>>
    /\ UNCHANGED <<gitconfig_history, slack_requests, sdam>>

\* lines 115-117: the token exchange
GetToken ==
    /\ pc = "get_token"
    /\ ~MissingRequiredKey(expansions)
    /\ \E auth \in AuthResponses :
        LET r == GetInstallationAccessToken(auth)
        IN  /\ access_token' = r.value
            /\ log' = log \o r.printed
            /\ auth_calls' = Append(auth_calls, auth)
    /\ pc' = "gitconfig"
    /\ UNCHANGED <<copybara_exists, expansion_file, expansions, gitconfig,
                   executed, proc, result, slack_calls, slack_sent, exception,
                   exit_code>>
    /\ UNCHANGED <<gitconfig_history, slack_requests, sdam>>

\* main gone wrong: the call of create_mongodb_bot_gitconfig is missing
CreateGitconfigSkipped ==
    /\ pc = "gitconfig"
    /\ pc' = "migrate"
    /\ UNCHANGED <<copybara_exists, expansion_file, expansions, access_token,
                   gitconfig, gitconfig_history, log, executed, proc, result,
                   auth_calls, slack_calls, slack_requests, slack_sent, sdam,
                   exception, exit_code>>

\* line 120: create_mongodb_bot_gitconfig
CreateGitconfig ==
    /\ pc = "gitconfig"
    /\ LET r == CreateMongodbBotGitconfig(gitconfig)
       IN  /\ gitconfig' = r.file
           /\ gitconfig_history' = Append(gitconfig_history, r.file)
           /\ log' = log \o r.printed
    /\ pc' = "migrate"
    /\ UNCHANGED <<slack_requests, sdam>>
    /\ UNCHANGED <<copybara_exists, expansion_file, expansions, access_token,
                   executed, proc, result, auth_calls, slack_calls, slack_sent,
                   exception, exit_code>>

\* lines 122-153: build docker_cmd, run it, classify a failure
Migrate ==
    /\ pc = "migrate"
    /\ \E p \in Procs :
        LET command == DockerCmd(access_token)
            r == RunCommand(command, p)
        IN  /\ executed' = Append(executed, command)
            /\ proc' = p
            /\ result' = r
            /\ log' = log \o r.printed
            /\ IF AfterMigration(r) = "return"
               THEN Return
               ELSE /\ pc' = "notify"
                    /\ UNCHANGED <<exception, exit_code>>
    /\ UNCHANGED <<copybara_exists, expansion_file, expansions, access_token,
                   gitconfig, auth_calls, slack_calls, slack_sent>>
    /\ UNCHANGED <<gitconfig_history, slack_requests, sdam>>

\* line 156 and lines 83-92: send_failure_message_to_slack(expansions); the
\* messaging API accepts the message, or the call raises and nothing catches it
Notify ==
    /\ pc = "notify"
    /\ slack_calls' = Append(slack_calls, expansions)
    /\ IF CurrentVersionId(expansions).raised
       THEN /\ UNCHANGED <<slack_requests, slack_sent>>
            /\ Raise("KeyError")
       ELSE LET request == [target |-> SlackTarget, msg |-> ErrorMsg(expansions)]
            IN  /\ slack_requests' = Append(slack_requests, request)
                /\ \E delivered \in BOOLEAN :
                    IF delivered
                    THEN /\ slack_sent' = Append(slack_sent, request)
                         /\ Return
                    ELSE /\ slack_sent' = slack_sent
                         /\ Raise("SlackError")
    /\ UNCHANGED <<copybara_exists, expansion_file, expansions, access_token,
                   gitconfig, gitconfig_history, log, executed, proc, result,
                   auth_calls, sdam>>

Next ==
    \/ DirExists
    \/ Clone
    \/ Build
    \/ ReadConfig
    \/ GetTokenKeyError
    \/ GetToken
    \/ CreateGitconfig
    \/ Migrate
    \/ Notify

Spec == Init /\ [][Next]_vars

\* every statement of main returns once started: the interpreter always takes
\* the next step of a run that has one
FairSpec == Spec /\ WF_vars(Next)

-----------------------------------------------------------------------------
(* create_mongodb_bot_gitconfig on its own: called twice over any prior file *)

GitconfigFragments == {BotGitconfig[1], OtherGitconfig[1], "[core] editor = vi"}
PriorGitconfigs ==
    {None} \cup {Str(t) : t \in SeqsUpTo(GitconfigFragments, MaxGitconfigLen)}

InitPreparer ==
    /\ pc = "preparer"
    /\ gitconfig \in PriorGitconfigs
    /\ gitconfig_history = <<gitconfig>>
    /\ copybara_exists = FALSE
    /\ expansion_file = NoExpansions
    /\ expansions = NoExpansions
    /\ access_token = None
    /\ log = <<>>
    /\ executed = <<>>
    /\ proc = NoProc
    /\ result = NoResult
    /\ auth_calls = <<>>
    /\ slack_calls = <<>>
    /\ slack_requests = <<>>
    /\ slack_sent = <<>>
    /\ sdam = NoTestCase
    /\ exception = "none"
    /\ exit_code = -1

\* one call of create_mongodb_bot_gitconfig(); two calls are made
PreparerCall ==
    /\ pc = "preparer"
    /\ Len(gitconfig_history) < 3
    /\ LET r == CreateMongodbBotGitconfig(gitconfig)
       IN  /\ gitconfig' = r.file
           /\ gitconfig_history' = Append(gitconfig_history, r.file)
           /\ log' = log \o r.printed
    /\ UNCHANGED <<pc, copybara_exists, expansion_file, expansions, access_token,
                   executed, proc, result, auth_calls, slack_calls,
                   slack_requests, slack_sent, sdam, exception, exit_code>>

SpecPreparer == InitPreparer /\ [][PreparerCall]_vars

-----------------------------------------------------------------------------
(* SDAMJsonTestCase (resmokelib/testing/testcases/sdam_json_test.py).        *)
(* A path is the sequence of its components; a command line is a sequence   *)
(* of arguments, each written as a path.                                     *)

\* os.path.normpath of a relative path: "." and empty components dropped,
\* "name/.." collapsed, leading ".." kept, "." for an empty result
RECURSIVE NormComponents(_, _)
NormComponents(stack, rest) ==
    IF rest = <<>> THEN stack
    ELSE LET c == Head(rest)
             next == IF c \in {".", ""} THEN stack
                     ELSE IF c = ".." /\ stack # <<>> /\ stack[Len(stack)] # ".."
                          THEN SubSeq(stack, 1, Len(stack) - 1)
                          ELSE Append(stack, c)
         IN  NormComponents(next, Tail(rest))

Normpath(path) ==
    LET r == NormComponents(<<>>, path) IN IF r = <<>> THEN <<".">> ELSE r

TEST_DIR == Normpath(<<"src", "mongo", "client", "sdam", "json_tests", "sdam_tests">>)

PathComponents == {"sdam_tests", "topology.json", ".", ".."}
FixturePaths == SeqsUpTo(PathComponents, MaxPathLen) \ {<<>>}
BinaryNames == {"sdam_json_test", "sdam_json_test.exe"}

\* _find_executable gone wrong: the isfile test is missing
FindExecutableUnchecked(os_name, install_files) ==
    LET binary == IF os_name = "nt" THEN "sdam_json_test.exe" ELSE "sdam_json_test"
    IN  [raised |-> "none", binary |-> <<"INSTALL_DIR", binary>>]

\* _find_executable on a machine whose install directory holds install_files
FindExecutable(os_name, install_files) ==
    LET binary == IF os_name = "nt" THEN "sdam_json_test.exe" ELSE "sdam_json_test"
    IN  IF binary \notin install_files
        THEN [raised |-> "StopExecution", binary |-> <<>>]
        ELSE [raised |-> "none", binary |-> <<"INSTALL_DIR", binary>>]

\* the command line _make_process builds
CommandLine(program_executable, json_test_file) ==
    <<program_executable, <<"--source-dir">>, TEST_DIR, <<"-f">>, json_test_file>>

InitSdam ==
    /\ pc = "sdam"
    /\ sdam \in [pc : {"new"}, os_name : {"posix", "nt"},
                  install_files : SUBSET BinaryNames,
                  arg_json_test_file : FixturePaths,
                  arg_program_options : {None, Str(<<"--verbose">>)},
                  program_executable : {<<>>}, json_test_file : {<<>>},
                  program_options : {None}, command_line : {<<>>},
                  process : {FALSE}, error : {"none"}]
    /\ copybara_exists = FALSE
    /\ expansion_file = NoExpansions
    /\ expansions = NoExpansions
    /\ access_token = None
    /\ gitconfig = None
    /\ gitconfig_history = <<gitconfig>>
    /\ log = <<>>
    /\ executed = <<>>
    /\ proc = NoProc
    /\ result = NoResult
    /\ auth_calls = <<>>
    /\ slack_calls = <<>>
    /\ slack_requests = <<>>
    /\ slack_sent = <<>>
    /\ exception = "none"
    /\ exit_code = -1

NotSdam == <<pc, copybara_exists, expansion_file, expansions, access_token,
             gitconfig, gitconfig_history, log, executed, proc, result,
             auth_calls, slack_calls, slack_requests, slack_sent, exception,
             exit_code>>

\* SDAMJsonTestCase.__init__
SdamConstruct ==
    /\ sdam.pc = "new"
    /\ LET found == FindExecutable(sdam.os_name, sdam.install_files)
       IN  IF found.raised # "none"
           THEN sdam' = [sdam EXCEPT !.pc = "failed", !.error = found.raised]
           ELSE sdam' = [sdam EXCEPT
                    !.pc = "constructed",
                    !.program_executable = found.binary,
                    !.json_test_file = Normpath(sdam.arg_json_test_file),
                    !.program_options = IF sdam.arg_program_options = None
                                        THEN Str(<<>>)
                                        ELSE sdam.arg_program_options]
    /\ UNCHANGED NotSdam

\* SDAMJsonTestCase._make_process
SdamMakeProcess ==
    /\ sdam.pc = "constructed"
    /\ sdam' = [sdam EXCEPT
            !.pc = "made",
            !.command_line = CommandLine(sdam.program_executable, sdam.json_test_file),
            !.process = TRUE]
    /\ UNCHANGED NotSdam

NextSdam == SdamConstruct \/ SdamMakeProcess

SpecSdam == InitSdam /\ [][NextSdam]_vars

-----------------------------------------------------------------------------
(* Shorthands for the properties *)

Exited == pc = "exit"
CommandRan(command) == \E i \in 1..Len(executed) : executed[i] = command
\* the migration command is the only one that starts with "docker run"
IsMigrationCmd(command) == Len(command) > 0 /\ command[1] = DockerCmd(None)[1]
MigrationRan == \E i \in 1..Len(executed) : IsMigrationCmd(executed[i])
\* the migration command was the last command run, and how it ended
MigrationFailed == MigrationRan /\ proc.returncode # 0
MigrationSucceeded == MigrationRan /\ proc.returncode = 0
HasNoNew(t) == Contains(t, <<NoNewChanges, ForResolvedRef>>)
HasIterative(t) == Contains(t, <<IterativeNoChanges, ForResolvedRef>>)
Benign(t) == HasNoNew(t) \/ HasIterative(t)

TokenIn(t) == Truthy(access_token) /\ Contains(t, access_token.text)

-----------------------------------------------------------------------------
(* Properties *)

\* C1: when the migration command exits nonzero and its standard error
\* contains one of the two acceptable messages, the failure notifier is not
\* invoked and the run has ended with exit status 0.
C1_BenignNoOpIsSilent ==
    (MigrationFailed /\ Benign(proc.stderr)) =>
        /\ slack_calls = <<>>
        /\ pc = "exit"
        /\ exit_code = 0
        /\ exception = "none"

\* scenario A: "Iterative workflow produced no changes ... for resolved ref"
\* followed by more text, on a nonzero exit
C1_Witness ==
    /\ MigrationFailed
    /\ HasIterative(proc.stderr)
    /\ ~HasNoNew(proc.stderr)
    /\ Len(proc.stderr) > 2
    /\ Exited

\* C2: when the migration command exits nonzero and its standard error
\* contains neither acceptable message, the failure notifier is invoked
\* exactly once, with the expansions of the run: it is about to be invoked,
\* or the run has ended and it was invoked once.
C2_GenuineFailureNotifiesOnce ==
    (MigrationFailed /\ ~Benign(proc.stderr)) =>
        \/ pc = "notify" /\ slack_calls = <<>>
        \/ pc = "exit" /\ slack_calls = <<expansion_file>>

C2_Witness ==
    /\ MigrationFailed
    /\ proc.stderr = <<NoNewChanges, AuthFailed, ForResolvedRef>>
    /\ Exited
    /\ Len(slack_calls) = 1

\* C3 (as claimed): a run that sent a notification ends with a nonzero exit
\* status; a notification followed by exit 0 is unreachable.
C3_NotificationThenNonzeroExit ==
    (Exited /\ slack_sent # <<>>) => exit_code # 0

\* C4 (as claimed): when the credential provider returned the absence value,
\* the migration command is never executed.
C4_NoMigrationWithoutToken ==
    (auth_calls # <<>> /\ access_token = None) => ~MigrationRan

\* C5 (as claimed): a run that aborts on a missing required key has executed
\* no external command and sent no notification.
C5_MissingKeyBeforeAnyCommand ==
    (exception = "KeyError") => (executed = <<>> /\ slack_calls = <<>>)

\* C5 (amended): when the expansions lack a required key, the run never
\* reaches the token exchange, the writing of the git identity file or the
\* migration command, and sends no notification; only the clone and the image
\* build run; when it aborts on the lookup the image build has been executed
\* and the exit status is 1.
C5_MissingKeyAbortsAtLookup ==
    (\E k \in RequiredKeys : k \notin DOMAIN expansion_file) =>
        /\ auth_calls = <<>>
        /\ gitconfig # Str(BotGitconfig)
        /\ ~MigrationRan
        /\ \A i \in 1..Len(executed) : executed[i] \in {CloneCmd, BuildCmd}
        /\ slack_calls = <<>>
        /\ pc \in {"check_dir", "build", "read_config", "get_token", "exit"}
        /\ Exited => exit_code = 1
        /\ (exception = "KeyError") => CommandRan(BuildCmd)

C5_Witness ==
    /\ exception = "KeyError"
    /\ "app_id_copybara_syncer" \notin DOMAIN expansions
    /\ CommandRan(CloneCmd)
    /\ CommandRan(BuildCmd)

\* C6 (as claimed): the access token appears in no line of the log and not
\* in the git identity file.
C6_TokenNeverLogged ==
    /\ \A i \in 1..Len(log) : ~TokenIn(log[i])
    /\ gitconfig # None => ~TokenIn(gitconfig.text)

\* C7 (as claimed): a run in which the notifier was invoked ends as it ends
\* when delivery succeeds, with exit status 0 and no exception, whether or
\* not the message was delivered.
C7_DeliveryFailureKeepsExit ==
    (Exited /\ slack_calls # <<>>) => (exit_code = 0 /\ exception = "none")

\* C8: the failure notifier is reached only after the migration command was
\* executed, exited nonzero and its standard error contained no acceptable
\* message; after a zero exit of the migration command the run has ended with
\* status 0 and no notification.
C8_NotifyOnlyAfterGenuineFailure ==
    /\ (pc = "notify" \/ slack_calls # <<>>) =>
            (MigrationFailed /\ ~Benign(proc.stderr))
    /\ MigrationSucceeded =>
            (slack_calls = <<>> /\ pc = "exit" /\ exit_code = 0)

C8_Witness ==
    /\ MigrationSucceeded
    /\ proc.stderr = <<AuthFailed>>
    /\ proc.stdout # <<>>
    /\ Exited

\* C9: a live run_command result is, for a zero exit, the return of the
\* captured standard output unchanged, and for a nonzero exit, the raising of
\* a CalledProcessError that carries the command, the exit status and exactly
\* the captured standard error; nothing else is raised.
C9_RunCommandContract ==
    (result.kind # "none") =>
        LET command == executed[Len(executed)]
        IN  IF proc.returncode = 0
            THEN /\ result.kind = "return"
                 /\ result.value = Str(proc.stdout)
            ELSE /\ result.kind = "raise"
                 /\ result.exc.type = "CalledProcessError"
                 /\ result.exc.cmd = command
                 /\ result.exc.returncode = proc.returncode
                 /\ result.exc.stderr = Str(proc.stderr)

C9_Witness ==
    /\ result.kind = "raise"
    /\ proc.returncode = 2
    /\ proc.stderr = <<AuthFailed>>
    /\ proc.stdout # <<>>
    /\ executed[Len(executed)] = BuildCmd

\* C11: whatever the git identity file held before (nothing included), after
\* one call of create_mongodb_bot_gitconfig it holds the fixed content, and
\* after a second call it holds the same content as after the first.
C11_PreparerIdempotent ==
    /\ gitconfig = gitconfig_history[Len(gitconfig_history)]
    /\ Len(gitconfig_history) >= 2 => gitconfig_history[2] = Str(BotGitconfig)
    /\ Len(gitconfig_history) >= 3 => gitconfig_history[3] = gitconfig_history[2]

\* two calls made over a file that held the fixed content and something else
C11_Witness ==
    /\ pc = "preparer"
    /\ Len(gitconfig_history) = 3
    /\ gitconfig_history[1] = Str(BotGitconfig \o OtherGitconfig)

\* C10 (as claimed): after the token exchange the provider's result is the
\* absence value or a non-empty token string, and a falsy response gives the
\* absence value with a diagnostic in the log.
C10_TokenOrAbsence ==
    (auth_calls # <<>>) =>
        /\ \/ access_token = None
           \/ access_token.type = "str" /\ access_token.text # <<>>
        /\ ~Truthy(auth_calls[1]) =>
                /\ access_token = None
                /\ \E i \in 1..Len(log) : log[i] = <<"Error obtaining installation token">>

\* C12: when the expansions handed to the failure notifier hold no version_id,
\* no KeyError is raised and exactly one message is handed to the messaging
\* API, for the operations channel, with "None" where the identifier goes.
C12_MissingVersionIdStillNotifies ==
    (slack_calls # <<>> /\ "version_id" \notin DOMAIN slack_calls[1]) =>
        /\ exception # "KeyError"
        /\ Len(slack_requests) = 1
        /\ slack_requests[1].target = "#sdp-triager"
        /\ slack_requests[1].msg =
              <<"Evergreen task '* Copybara Sync Between Repos' failed ",
                "For more details: <https://spruce.mongodb.com/version/",
                "None", "|here>.">>

C12_Witness ==
    /\ Exited
    /\ "version_id" \notin DOMAIN expansions
    /\ Len(slack_sent) = 1
    /\ slack_sent = slack_requests

\* C13: the step that checks for the copybara directory executes the clone
\* command exactly when the directory is absent; when it is present the step
\* executes nothing and main goes on to the image build; no other step
\* executes the clone command.
C13_CloneIffAbsent ==
    [][IF pc = "check_dir"
       THEN /\ CommandRan(CloneCmd)' <=> ~copybara_exists
            /\ copybara_exists => (pc' = "build" /\ executed' = executed)
       ELSE CommandRan(CloneCmd)' <=> CommandRan(CloneCmd)]_vars

\* the directory was there: nothing has been executed before the image build
C13_Witness ==
    /\ pc = "build"
    /\ copybara_exists
    /\ executed = <<>>
    /\ log = << <<"Copybara directory already exists.">> >>

\* C14: when the executable named for the platform (sdam_json_test, with .exe
\* on Windows) is not a file of the install directory, construction ends with
\* StopExecution and no command line or process is ever built; when a process
\* has been made, its command line is the executable of the install directory,
\* --source-dir, the test directory, -f and the fixture path (in normal form:
\* unchanged when it has no "." or ".." component), in that order.
C14_SdamCommandLine ==
    LET name == IF sdam.os_name = "nt" THEN "sdam_json_test.exe" ELSE "sdam_json_test"
        given == sdam.arg_json_test_file
    IN  /\ (sdam.pc # "new" /\ name \notin sdam.install_files) =>
                /\ sdam.pc = "failed"
                /\ sdam.error = "StopExecution"
                /\ sdam.command_line = <<>>
                /\ ~sdam.process
        /\ sdam.pc = "made" =>
                /\ name \in sdam.install_files
                /\ Len(sdam.command_line) = 5
                /\ sdam.command_line[1] = <<"INSTALL_DIR", name>>
                /\ sdam.command_line[2] = <<"--source-dir">>
                /\ sdam.command_line[3] =
                      <<"src", "mongo", "client", "sdam", "json_tests", "sdam_tests">>
                /\ sdam.command_line[4] = <<"-f">>
                /\ sdam.command_line[5] = Normpath(given)
                /\ (\A i \in 1..Len(given) : given[i] \notin {".", ".."}) =>
                        sdam.command_line[5] = given
        /\ sdam.pc \in {"new", "failed", "constructed"} =>
                (sdam.command_line = <<>> /\ ~sdam.process)

\* on Windows with only the name without .exe installed: construction failed
C14_Witness ==
    /\ sdam.pc = "failed"
    /\ sdam.os_name = "nt"
    /\ sdam.install_files = {"sdam_json_test"}
    /\ sdam.error = "StopExecution"

CountCmd(command) == Cardinality({i \in 1..Len(executed) : executed[i] = command})
CountMigrations == Cardinality({i \in 1..Len(executed) : IsMigrationCmd(executed[i])})
IsDiagnostic(line) == Len(line) > 0 /\ line[1] = "Error while executing: '"
GitconfigWritten == Len(gitconfig_history) > 1

\* C15: when the migration command has been invoked, the directory check
\* (with the clone if needed), the image build, the loading of the
\* expansions, the token exchange and the writing of the git identity file
\* have all been done, each only after the one before it; the notifier is
\* reached only once the migration command has come back with its failure.
C15_StepOrder ==
    /\ \/ \E n \in 0..3 : executed = SubSeq(<<CloneCmd, BuildCmd, DockerCmd(access_token)>>, 1, n)
       \/ \E n \in 0..2 : executed = SubSeq(<<BuildCmd, DockerCmd(access_token)>>, 1, n)
    /\ CommandRan(BuildCmd) => copybara_exists
    /\ expansions # NoExpansions => (CommandRan(BuildCmd) /\ expansions = expansion_file)
    /\ auth_calls # <<>> => (expansions # NoExpansions /\ Len(auth_calls) = 1)
    /\ GitconfigWritten => (auth_calls # <<>> /\ gitconfig = Str(BotGitconfig))
    /\ MigrationRan => (GitconfigWritten /\ pc \in {"notify", "exit"})
    /\ (pc = "notify" \/ slack_calls # <<>>) => (MigrationRan /\ result.kind = "raise")

\* the whole sequence, clone included, up to a failed migration
C15_Witness ==
    /\ pc = "notify"
    /\ Len(executed) = 3
    /\ executed[1] = CloneCmd
    /\ access_token = Str(InstallationToken)

\* C16: in every run the clone command, the token exchange, the migration
\* command and the notifier are each executed at most once; the image build
\* is executed exactly once in a run that got past the clone step; a failed
\* command is the last one executed.
C16_NoRetry ==
    /\ CountCmd(CloneCmd) <= 1
    /\ CountCmd(BuildCmd) <= 1
    /\ CountMigrations <= 1
    /\ Len(auth_calls) <= 1
    /\ Len(slack_calls) <= 1
    /\ (pc \notin {"check_dir", "build"} /\ executed # <<CloneCmd>>) =>
            CountCmd(BuildCmd) = 1
    /\ result.kind = "raise" =>
            (executed[Len(executed)] = result.exc.cmd /\ pc \in {"notify", "exit"})
    /\ exception # "none" => Exited

\* the image build failed after a clone: the run is over, each ran once
C16_Witness ==
    /\ Exited
    /\ exception = "CalledProcessError"
    /\ executed = <<CloneCmd, BuildCmd>>

\* C17: while a CalledProcessError of run_command is with the caller, the log
\* holds exactly one diagnostic line, it is the last line, and it names the
\* failing command and ends with the captured standard error; when no command
\* has failed the log holds no diagnostic line.
C17_DiagnosticBeforeCaller ==
    LET diags == {i \in 1..Len(log) : IsDiagnostic(log[i])}
    IN  IF result.kind = "raise"
        THEN /\ diags = {Len(log)}
             /\ LET line == log[Len(log)]
                    command == executed[Len(executed)]
                    tail == <<" Standard Error: ">> \o proc.stderr
                IN  /\ SubSeq(line, 2, 1 + Len(command)) = command
                    /\ Len(line) > Len(tail)
                    /\ SubSeq(line, Len(line) - Len(tail) + 1, Len(line)) = tail
        ELSE diags = {}

\* the handler of main holds the failure of the migration command
C17_Witness ==
    /\ pc = "notify"
    /\ result.kind = "raise"
    /\ proc.stderr = <<AuthFailed, ForResolvedRef>>
    /\ Len(log) > 1

\* every step of main has at most one effect on the outside: one command, one
\* token exchange, one write of the git identity file or one notifier call
OneStepAtATime ==
    /\ pc # "exit"
    /\ Len(executed') >= Len(executed)
    /\ Len(auth_calls') >= Len(auth_calls)
    /\ Len(gitconfig_history') >= Len(gitconfig_history)
    /\ Len(slack_calls') >= Len(slack_calls)
    /\ (Len(executed') - Len(executed)) + (Len(auth_calls') - Len(auth_calls))
         + (Len(gitconfig_history') - Len(gitconfig_history))
         + (Len(slack_calls') - Len(slack_calls)) <= 1

\* C18: the steps of a run happen one at a time, no step is taken once the
\* process has exited, and, every step returning once started, every run ends
\* exited with status 0 or 1 and stays so.
C18_SequentialAndTerminates ==
    /\ [][OneStepAtATime]_vars
    /\ <>[](Exited /\ exit_code \in {0, 1})

\* a run that went through every step and ended after a delivered message
C18_Witness ==
    /\ Exited
    /\ Len(executed) = 3
    /\ Len(slack_sent) = 1
    /\ exit_code = 0

\* C19: when the clone command or the image build command exits nonzero,
\* whatever its standard error holds, the run is over with exit status 1 and
\* the CalledProcessError uncaught: no expansions loaded, no token exchange,
\* no write of the git identity file, no migration command, no notifier call.
C19_CloneBuildFailuresPropagate ==
    (\E i \in 1..Len(log) :
        IsDiagnostic(log[i]) /\ log[i][2] \in {CloneCmd[1], BuildCmd[1]}) =>
        /\ Exited
        /\ exit_code = 1
        /\ exception = "CalledProcessError"
        /\ expansions = NoExpansions
        /\ auth_calls = <<>>
        /\ ~GitconfigWritten
        /\ ~MigrationRan
        /\ slack_calls = <<>>

\* the image build failed with an acceptable message on its standard error
C19_Witness ==
    /\ Exited
    /\ executed[Len(executed)] = BuildCmd
    /\ proc.returncode # 0
    /\ HasNoNew(proc.stderr)

\* C20: whether a failed migration command is swallowed or notified depends
\* on its standard error alone: any other failing outcome with the same
\* standard error (another exit status, another standard output, another
\* token in the command) is decided the same way; an acceptable message on
\* standard output only, and a standard error that is None, are notified.
C20_DecisionFromStderrAlone ==
    /\ MigrationFailed =>
        LET swallowed == pc = "exit" /\ slack_calls = <<>>
            decision == IF swallowed THEN "return" ELSE "notify"
        IN  /\ swallowed <=> Benign(proc.stderr)
            /\ \A code \in ReturnCodes \ {0}, out \in StdoutTexts,
                  tok \in {None, Str(InstallationToken), Str(<<>>)} :
                 AfterMigration(RunCommand(DockerCmd(tok),
                     [returncode |-> code, stdout |-> out, stderr |-> proc.stderr]))
                 = decision
    /\ \A p \in {q \in Procs : q.returncode # 0 /\ q.stderr = <<>>} :
         LET err == [CalledProcessError(DockerCmd(None), p) EXCEPT !.stderr = None]
         IN  AfterMigration([kind |-> "raise", value |-> None, exc |-> err,
                             printed |-> <<>>]) = "notify"

\* an acceptable message on standard output only: the notifier is next
C20_Witness ==
    /\ MigrationFailed
    /\ pc = "notify"
    /\ Benign(proc.stdout)
    /\ ~Benign(proc.stderr)
    /\ proc.stderr # <<>>

====
